---- MODULE Spec2Model ----
(***************************************************************************)
(* The dispatch core of starlette: the Starlette application facade and    *)
(* the request_response / websocket_session adapters (applications.py),    *)
(* and the class-based HTTPEndpoint and WebSocketEndpoint (endpoints.py).  *)
(*                                                                         *)
(* Python values are modelled as follows.  None is the empty set and a     *)
(* value x that may also be None is {x}.  A dict is a function whose       *)
(* domain is its set of keys.  A str or bytes payload, or a parsed JSON    *)
(* value, is a record [t, v] tagged with its Python type.  A propagating   *)
(* exception is the sequence of exception names, innermost handler last:   *)
(* the head is the exception being raised, the tail its __context__.       *)
(* assert statements are enabled (the interpreter's default).              *)
(***************************************************************************)
EXTENDS Integers, Sequences, FiniteSets, TLC

\* ---------------------------------------------------------------- bounds
MaxMiddleware == 2
MaxRoutes == 1
MaxInbound == 3
MaxDepth == 2

\* ------------------------------------------------------- Python values
None == {}
Some(x) == {x}
Val(t, v) == [t |-> t, v |-> v]
NoData == Val("none", "")
Str(v) == Val("str", v)
Bytes(v) == Val("bytes", v)
Json(v) == Val("json", v)

\* An observable call made by the code: the callee, and the arguments that
\* matter (a payload or name, a close or status code, the path parameters).
Ev(op, data, code, kwargs) == [op |-> op, data |-> data, code |-> code, kwargs |-> kwargs]

Self == "self"
EmptyKwargs == {}
PathParams == {<<"id", "1">>}

\* scope.get("kwargs", {})
ScopeKwargs(s) == IF "kwargs" \in DOMAIN s THEN s["kwargs"] ELSE EmptyKwargs

\* The scope's application back-reference as a callee reads it.
ScopeApp(s) == IF "app" \in DOMAIN s THEN Val("app", s["app"]) ELSE NoData

\* ------------------------------------------------ the gateway's scopes
Methods == {"GET", "HEAD", "Post", "DELETE", "DISPATCH", "SCOPE", "METHOD_NOT_ALLOWED"}

BaseScopes ==
    {[type |-> "lifespan"], [type |-> "websocket"]}
        \cup {[type |-> "http", method |-> m] : m \in Methods}

Scopes ==
    LET withKwargs == BaseScopes \cup {("kwargs" :> PathParams) @@ s : s \in BaseScopes}
    IN  withKwargs \cup {("app" :> "outer") @@ s : s \in withKwargs}

\* ------------------------------------------------------------- facade
MiddlewareClasses == {"M1", "M2"}
Router == <<"Router">>
RouteArgs == {"func", "Endpoint"}
MethodArgs == {None, Some(<<"POST">>)}
Paths == {"/"}

VARIABLES
    app,                       \* Starlette.app
    exception_middleware_app,  \* Starlette.exception_middleware.app
    routes,                    \* Starlette.router.routes
    middleware,                \* history: the classes given to add_middleware
    calls,                     \* history: the arguments of each route registration
    pc,                        \* the position of the connection being handled
    entry,                     \* the connection handler the scope was given to
    scope,                     \* the scope dict of the connection
    scope0,                    \* history: the scope as the caller built it
    handlers,                  \* the method handlers an HTTPEndpoint subclass defines
    encoding,                  \* WebSocketEndpoint.encoding
    received,                  \* history: the messages websocket.receive() returned
    message, data, close_code, \* locals of WebSocketEndpoint.__call__
    handler_name,              \* local of HTTPEndpoint.dispatch
    depth,                     \* the nesting of HTTPEndpoint.dispatch frames
    response,                  \* the response a handler returned
    is_coroutine,              \* request_response: asyncio.iscoroutinefunction(func)
    exc,                       \* the exception propagating out of the handler
    events                     \* the calls made so far, in order

facadeVars == <<app, exception_middleware_app, routes, middleware, calls>>
connVars == <<pc, entry, scope, scope0, events, exc>>
httpVars == <<handlers, handler_name, depth, response, is_coroutine>>
wsVars == <<encoding, received, message, data, close_code>>
vars == <<facadeVars, connVars, httpVars, wsVars>>

\* Starlette.__init__, and no connection yet.
Init ==
    /\ app = Router
    /\ exception_middleware_app = Router
    /\ routes = <<>>
    /\ middleware = <<>>
    /\ calls = <<>>
    /\ pc = "idle"
    /\ entry = ""
    /\ scope = [type |-> ""]
    /\ scope0 = [type |-> ""]
    /\ handlers = {}
    /\ encoding = None
    /\ received = <<>>
    /\ message = [type |-> ""]
    /\ data = NoData
    /\ close_code = None
    /\ handler_name = ""
    /\ depth = 0
    /\ response = None
    /\ is_coroutine = FALSE
    /\ exc = <<>>
    /\ events = <<>>

\* middleware_class(inner, **kwargs): an ASGI app wrapping inner.
Wrap(middleware_class, inner) == <<middleware_class>> \o inner

add_middleware ==
    /\ pc = "idle"
    /\ Len(middleware) < MaxMiddleware
    /\ \E middleware_class \in MiddlewareClasses :
        /\ exception_middleware_app' = Wrap(middleware_class, app)
        /\ middleware' = Append(middleware, middleware_class)
    /\ UNCHANGED <<app, routes, calls, connVars, httpVars, wsVars>>

\* Path(path, app, protocol=..., methods=...) and PathPrefix(path, app=..., methods=...)
\* keep their arguments; a keyword that is not passed is None.
PathEntry(path, route, protocol, methods) ==
    [cls |-> "Path", path |-> path, app |-> route, protocol |-> protocol, methods |-> methods]
PrefixEntry(path, route, methods) ==
    [cls |-> "PathPrefix", path |-> path, app |-> route, protocol |-> None, methods |-> methods]

\* add_route with the default of methods left out.
AddRouteEntryNoDefault(path, route, methods) ==
    IF route # "Endpoint"
    THEN PathEntry(path, <<"request_response", route>>, Some("http"), methods)
    ELSE PathEntry(path, <<route>>, Some("http"), methods)

\* The routing-table entry add_route appends.  route is "Endpoint" for a
\* class and "func" for a plain routine (inspect.isclass).
AddRouteEntry(path, route, methods) ==
    IF route # "Endpoint"
    THEN PathEntry(path, <<"request_response", route>>, Some("http"),
                   IF methods = None THEN Some(<<"GET">>) ELSE methods)
    ELSE PathEntry(path, <<route>>, Some("http"), methods)

AddWebsocketRouteEntry(path, route) ==
    IF route # "Endpoint"
    THEN PathEntry(path, <<"websocket_session", route>>, Some("websocket"), None)
    ELSE PathEntry(path, <<route>>, Some("websocket"), None)

RegVars == <<app, exception_middleware_app, middleware, connVars, httpVars, wsVars>>
Call(op, path, route, methods) == [op |-> op, path |-> path, route |-> route, methods |-> methods]

add_route ==
    /\ pc = "idle"
    /\ Len(routes) < MaxRoutes
    /\ \E path \in Paths, r \in RouteArgs, methods \in MethodArgs :
        /\ routes' = Append(routes, AddRouteEntry(path, r, methods))
        /\ calls' = Append(calls, Call("add_route", path, r, methods))
    /\ UNCHANGED RegVars

\* The decorator returned by Starlette.route(path, methods), applied to func.
route ==
    /\ pc = "idle"
    /\ Len(routes) < MaxRoutes
    /\ \E path \in Paths, func \in RouteArgs, methods \in MethodArgs :
        /\ routes' = Append(routes, AddRouteEntry(path, func, methods))
        /\ calls' = Append(calls, Call("add_route", path, func, methods))
    /\ UNCHANGED RegVars

add_websocket_route ==
    /\ pc = "idle"
    /\ Len(routes) < MaxRoutes
    /\ \E path \in Paths, r \in RouteArgs :
        /\ routes' = Append(routes, AddWebsocketRouteEntry(path, r))
        /\ calls' = Append(calls, Call("add_websocket_route", path, r, None))
    /\ UNCHANGED RegVars

\* The decorator returned by Starlette.websocket_route(path), applied to func.
websocket_route ==
    /\ pc = "idle"
    /\ Len(routes) < MaxRoutes
    /\ \E path \in Paths, func \in RouteArgs :
        /\ routes' = Append(routes, AddWebsocketRouteEntry(path, func))
        /\ calls' = Append(calls, Call("add_websocket_route", path, func, None))
    /\ UNCHANGED RegVars

mount ==
    /\ pc = "idle"
    /\ Len(routes) < MaxRoutes
    /\ \E path \in Paths, methods \in MethodArgs :
        /\ routes' = Append(routes, PrefixEntry(path, <<"asgi">>, methods))
        /\ calls' = Append(calls, Call("mount", path, "asgi", methods))
    /\ UNCHANGED RegVars

\* __call__ with the lifespan branch left out.
Starlette_call_NoLifespan ==
    /\ pc = "idle"
    /\ \E s \in Scopes :
        /\ scope0' = s
        /\ scope' = ("app" :> Self) @@ s
        /\ events' = <<Ev("exception_middleware", ScopeApp(scope'), None, ScopeKwargs(scope'))>>
    /\ entry' = "Starlette"
    /\ pc' = "done"
    /\ UNCHANGED <<exc, facadeVars, httpVars, wsVars>>

\* __call__ with the assignment to scope["app"] left out.
Starlette_call_NoStamp ==
    /\ pc = "idle"
    /\ \E s \in Scopes :
        /\ scope0' = s
        /\ scope' = s
        /\ IF s["type"] = "lifespan"
           THEN events' = <<Ev("lifespan_handler", ScopeApp(scope'), None, ScopeKwargs(scope'))>>
           ELSE events' = <<Ev("exception_middleware", ScopeApp(scope'), None, ScopeKwargs(scope'))>>
    /\ entry' = "Starlette"
    /\ pc' = "done"
    /\ UNCHANGED <<exc, facadeVars, httpVars, wsVars>>

\* Starlette.__call__(scope): one connection handed to the facade.
Starlette_call ==
    /\ pc = "idle"
    /\ \E s \in Scopes :
        /\ scope0' = s
        /\ IF s["type"] = "lifespan"
           THEN /\ scope' = s
                /\ events' = <<Ev("lifespan_handler", ScopeApp(scope'), None, ScopeKwargs(scope'))>>
           ELSE /\ scope' = ("app" :> Self) @@ s
                /\ events' = <<Ev("exception_middleware", ScopeApp(scope'), None, ScopeKwargs(scope'))>>
    /\ entry' = "Starlette"
    /\ pc' = "done"
    /\ UNCHANGED <<exc, facadeVars, httpVars, wsVars>>

\* ------------------------------------------------------- HTTPEndpoint
\* An endpoint reads nothing of the facade but the scope it is given, stamped
\* with "app" or not: its runs start from the facade as constructed.
Unconfigured == routes = <<>> /\ middleware = <<>>

Raise(name) == Ev("raise", Val("exc", name), None, EmptyKwargs)

\* The names a subclass may define handlers for.
HandlerNames == {"get", "post"}

\* The method name taken as it came.
LowerForgotten(m) == m

\* str.lower() on the request methods.
Lower(m) ==
    CASE m = "GET" -> "get"
      [] m = "HEAD" -> "head"
      [] m = "Post" -> "post"
      [] m = "DELETE" -> "delete"
      [] m = "DISPATCH" -> "dispatch"
      [] m = "SCOPE" -> "scope"
      [] m = "METHOD_NOT_ALLOWED" -> "method_not_allowed"

\* What getattr(self, name, self.method_not_allowed) finds on an endpoint
\* whose subclass defines the handlers in h: a handler of the subclass, a
\* method of HTTPEndpoint itself, the instance attribute set by __init__, or
\* the default.
GetAttr(h, name) ==
    CASE name \in h -> Val("handler", name)
      [] name \in {"dispatch", "method_not_allowed"} /\ name \notin h -> Val("method", name)
      [] name = "scope" /\ name \notin h -> Val("attribute", name)
      [] OTHER -> Val("method", "method_not_allowed")

UserResponse == [cls |-> "Response", status_code |-> 200, body |-> "user"]
PlainTextResponse405 ==
    [cls |-> "PlainTextResponse", status_code |-> 405, body |-> "Method Not Allowed"]

\* HTTPEndpoint(scope), for a subclass defining the handlers h.
HTTPEndpoint_init ==
    /\ pc = "idle"
    /\ Unconfigured
    /\ \E s \in Scopes, h \in SUBSET HandlerNames :
        /\ scope0' = s
        /\ scope' = s
        /\ handlers' = h
        /\ IF s["type"] = "http"
           THEN pc' = "http_call" /\ UNCHANGED <<exc, events>>
           ELSE /\ pc' = "done"
                /\ exc' = <<"AssertionError">>
                /\ events' = Append(events, Raise("AssertionError"))
    /\ entry' = "HTTPEndpoint"
    /\ UNCHANGED <<facadeVars, handler_name, depth, response, is_coroutine, wsVars>>

\* HTTPEndpoint.__call__(receive, send), up to the call of dispatch.
HTTPEndpoint_call ==
    /\ pc = "http_call"
    /\ pc' = "dispatch"
    /\ depth' = 1
    /\ UNCHANGED <<facadeVars, entry, scope, scope0, events, exc, handlers,
                   handler_name, response, is_coroutine, wsVars>>

\* HTTPEndpoint.dispatch(request, **kwargs): resolve the handler and call it.
HTTPEndpoint_dispatch ==
    /\ pc = "dispatch"
    /\ LET name == IF scope["method"] = "HEAD" THEN "get" ELSE Lower(scope["method"])
           handler == GetAttr(handlers, name)
           kwargs == ScopeKwargs(scope)
       IN  /\ handler_name' = name
           /\ CASE handler.t = "handler" ->
                    \* a handler of the subclass: it returns a response or raises
                    /\ depth' = depth
                    /\ \/ /\ response' = Some(UserResponse)
                          /\ events' = Append(events, Ev("handler", Val("name", name), None, kwargs))
                          /\ pc' = "respond"
                          /\ exc' = exc
                       \/ /\ response' = response
                          /\ events' = events \o <<Ev("handler", Val("name", name), None, kwargs),
                                                   Raise("UserError")>>
                          /\ pc' = "done"
                          /\ exc' = <<"UserError">>
                [] handler = Val("method", "method_not_allowed") ->
                    /\ pc' = "method_not_allowed"
                    /\ UNCHANGED <<depth, response, events, exc>>
                [] handler = Val("method", "dispatch") ->
                    \* self.dispatch(request, **kwargs): a nested frame, until the
                    \* interpreter's recursion limit
                    IF depth < MaxDepth
                    THEN /\ depth' = depth + 1
                         /\ events' = Append(events, Ev("dispatch", Val("name", name), None, kwargs))
                         /\ pc' = "dispatch"
                         /\ UNCHANGED <<response, exc>>
                    ELSE /\ events' = Append(events, Raise("RecursionError"))
                         /\ exc' = <<"RecursionError">>
                         /\ pc' = "done"
                         /\ UNCHANGED <<depth, response>>
                [] handler.t = "attribute" ->
                    \* self.scope(request, **kwargs): a dict is not callable
                    /\ events' = Append(events, Raise("TypeError"))
                    /\ exc' = <<"TypeError">>
                    /\ pc' = "done"
                    /\ UNCHANGED <<depth, response>>
    /\ UNCHANGED <<facadeVars, entry, scope, scope0, handlers, is_coroutine, wsVars>>

\* method_not_allowed returning the response whatever the scope holds.
HTTPEndpoint_method_not_allowed_NoRaise ==
    /\ pc = "method_not_allowed"
    /\ events' = Append(events, Ev("method_not_allowed", NoData, None, ScopeKwargs(scope)))
    /\ response' = Some(PlainTextResponse405)
    /\ pc' = "respond"
    /\ UNCHANGED <<facadeVars, entry, scope, scope0, exc, handlers, handler_name, depth,
                   is_coroutine, wsVars>>

\* HTTPEndpoint.method_not_allowed(request, **kwargs)
HTTPEndpoint_method_not_allowed ==
    /\ pc = "method_not_allowed"
    /\ LET called == Ev("method_not_allowed", NoData, None, ScopeKwargs(scope))
       IN  IF "app" \in DOMAIN scope
           THEN /\ events' = events \o <<called, Raise("HTTPException(405)")>>
                /\ exc' = <<"HTTPException(405)">>
                /\ pc' = "done"
                /\ response' = response
           ELSE /\ events' = Append(events, called)
                /\ response' = Some(PlainTextResponse405)
                /\ pc' = "respond"
                /\ exc' = exc
    /\ UNCHANGED <<facadeVars, entry, scope, scope0, handlers, handler_name, depth,
                   is_coroutine, wsVars>>

\* await response(receive, send), the last statement of HTTPEndpoint.__call__
\* and of the request_response adapter.
SendResponse ==
    /\ pc = "respond"
    /\ \E r \in response :
        events' = Append(events, Ev("response", Val("body", r.body), Some(r.status_code), EmptyKwargs))
    /\ pc' = "done"
    /\ UNCHANGED <<facadeVars, entry, scope, scope0, exc, httpVars, wsVars>>

\* ----------------------------------------------------------- adapters
\* request_response(func)(scope): phase one, returning the awaitable.
request_response_app ==
    /\ pc = "idle"
    /\ Unconfigured
    /\ \E s \in Scopes, c \in BOOLEAN :
        /\ scope0' = s
        /\ scope' = s
        /\ is_coroutine' = c
    /\ entry' = "request_response"
    /\ pc' = "rr_awaitable"
    /\ UNCHANGED <<facadeVars, events, exc, handlers, handler_name, depth, response, wsVars>>

\* The awaitable turning a fault of func into a response of its own.
request_response_awaitable_Translating ==
    /\ pc = "rr_awaitable"
    /\ LET kwargs == ScopeKwargs(scope)
           called == Ev("func", Val("call", IF is_coroutine THEN "await" ELSE "plain"), None, kwargs)
       IN  \/ /\ response' = Some(UserResponse)
              /\ events' = Append(events, called)
           \/ /\ response' = Some([cls |-> "Response", status_code |-> 500, body |-> "error"])
              /\ events' = events \o <<called, Raise("UserError")>>
    /\ pc' = "respond"
    /\ UNCHANGED <<facadeVars, entry, scope, scope0, exc, handlers, handler_name, depth,
                   is_coroutine, wsVars>>

\* request_response's awaitable(receive, send), up to the call of the response.
request_response_awaitable ==
    /\ pc = "rr_awaitable"
    /\ LET kwargs == ScopeKwargs(scope)
           called == Ev("func", Val("call", IF is_coroutine THEN "await" ELSE "plain"), None, kwargs)
       IN  \/ /\ response' = Some(UserResponse)
              /\ events' = Append(events, called)
              /\ pc' = "respond"
              /\ exc' = exc
           \/ /\ response' = response
              /\ events' = events \o <<called, Raise("UserError")>>
              /\ pc' = "done"
              /\ exc' = <<"UserError">>
    /\ UNCHANGED <<facadeVars, entry, scope, scope0, handlers, handler_name, depth,
                   is_coroutine, wsVars>>

\* websocket_session(func)(scope): phase one, returning the awaitable.
websocket_session_app ==
    /\ pc = "idle"
    /\ Unconfigured
    /\ \E s \in Scopes :
        /\ scope0' = s
        /\ scope' = s
    /\ entry' = "websocket_session"
    /\ pc' = "wss_awaitable"
    /\ UNCHANGED <<facadeVars, events, exc, httpVars, wsVars>>

\* websocket_session's awaitable(receive, send): await func(session, **kwargs).
websocket_session_awaitable ==
    /\ pc = "wss_awaitable"
    /\ LET called == Ev("func", Val("call", "await"), None, ScopeKwargs(scope))
       IN  \/ /\ events' = Append(events, called)
              /\ exc' = exc
           \/ /\ events' = events \o <<called, Raise("UserError")>>
              /\ exc' = <<"UserError">>
    /\ pc' = "done"
    /\ UNCHANGED <<facadeVars, entry, scope, scope0, httpVars, wsVars>>

\* -------------------------------------------------- WebSocketEndpoint
Encodings == {None, Some("text"), Some("bytes"), Some("json"), Some("xml")}

\* The messages websocket.receive() may return.
Receive == "websocket.receive"
Disconnect == "websocket.disconnect"
Messages ==
    {[type |-> Receive, text |-> Str("A")],
     [type |-> Receive, text |-> Str("B")],
     [type |-> Receive, bytes |-> Bytes("{\"a\":1}")],
     [type |-> Receive, bytes |-> Bytes("{")],
     [type |-> Receive, bytes |-> Bytes("\\xff")],
     [type |-> Disconnect],
     [type |-> Disconnect, code |-> 1001],
     [type |-> "websocket.connect"]}

\* bytes.decode("utf-8"): the str, or None where it raises UnicodeDecodeError.
Utf8Decode(b) == IF b.v = "\\xff" THEN None ELSE Some(Str(b.v))

\* json.loads(s): the parsed value, or None where it raises JSONDecodeError.
JsonLoads(s) == IF s.v = "{\"a\":1}" THEN Some(Json("{'a': 1}")) ELSE None

\* The outcome of a call: what it returned, what it raised, and the code it
\* closed the websocket with.
Returned(value) == [value |-> value, raised |-> None, closed |-> None]
Raised(name, closed) == [value |-> NoData, raised |-> Some(name), closed |-> closed]

\* The "text" branch raising without closing the session.
DecodeTextNoClose(m) ==
    IF "text" \notin DOMAIN m
    THEN Raised("RuntimeError", None)
    ELSE Returned(m["text"])

\* decode, encoding "text" (the first branch).
DecodeText(m) ==
    IF "text" \notin DOMAIN m
    THEN Raised("RuntimeError", Some(1003))
    ELSE Returned(m["text"])

\* The "bytes" branch with the close forgotten.
DecodeBytesNoClose(m) ==
    IF "bytes" \notin DOMAIN m
    THEN Raised("RuntimeError", None)
    ELSE Returned(m["bytes"])

\* decode, encoding "bytes".
DecodeBytes(m) ==
    IF "bytes" \notin DOMAIN m
    THEN Raised("RuntimeError", Some(1003))
    ELSE Returned(m["bytes"])

\* The "json" branch returning the bytes unparsed.
DecodeJsonNoParse(m) ==
    IF "bytes" \notin DOMAIN m
    THEN Raised("RuntimeError", Some(1003))
    ELSE Returned(m["bytes"])

\* decode, encoding "json": json.loads(message["bytes"].decode("utf-8")).
DecodeJson(m) ==
    IF "bytes" \notin DOMAIN m
    THEN Raised("RuntimeError", Some(1003))
    ELSE IF Utf8Decode(m["bytes"]) = None
    THEN Raised("UnicodeDecodeError", None)
    ELSE LET text == CHOOSE s \in Utf8Decode(m["bytes"]) : TRUE
         IN  IF JsonLoads(text) = None
             THEN Raised("JSONDecodeError", None)
             ELSE Returned(CHOOSE v \in JsonLoads(text) : TRUE)

\* The last two statements with the assertion left out.
DecodeRawNoAssert(enc, m) ==
    Returned(IF "text" \in DOMAIN m THEN m["text"] ELSE m["bytes"])

\* decode, any other encoding: the assertion that it is None, and the
\* payload as it came.
DecodeRaw(enc, m) ==
    IF enc # None
    THEN Raised("AssertionError", None)
    ELSE Returned(IF "text" \in DOMAIN m THEN m["text"] ELSE m["bytes"])

\* WebSocketEndpoint.decode(websocket, message) under the encoding enc.
Decode(enc, m) ==
    CASE enc = Some("text") -> DecodeText(m)
      [] enc = Some("bytes") -> DecodeBytes(m)
      [] enc = Some("json") -> DecodeJson(m)
      [] OTHER -> DecodeRaw(enc, m)

\* message.get("code", 1000)
CloseCodeNoDefault(m) == IF "code" \in DOMAIN m THEN Some(m["code"]) ELSE None
CloseCode(m) == IF "code" \in DOMAIN m THEN Some(m["code"]) ELSE Some(1000)

\* try: ... finally: where control goes when the loop is left, by the return
\* or by an exception raised inside the try statement.
UnwindNoFinally == "done"
UnwindKeepLooping == "ws_receive"
Unwind == "ws_finally"

\* __init__ with the assertion on the scope's type left out.
WebSocketEndpoint_init_NoAssert ==
    /\ pc = "idle"
    /\ Unconfigured
    /\ \E s \in Scopes, e \in Encodings :
        /\ scope0' = s
        /\ scope' = s
        /\ encoding' = e
    /\ pc' = "ws_call"
    /\ entry' = "WebSocketEndpoint"
    /\ UNCHANGED <<facadeVars, exc, events, httpVars, received, message, data, close_code>>

\* WebSocketEndpoint(scope), for a subclass whose encoding attribute is e.
WebSocketEndpoint_init ==
    /\ pc = "idle"
    /\ Unconfigured
    /\ \E s \in Scopes, e \in Encodings :
        /\ scope0' = s
        /\ scope' = s
        /\ encoding' = e
        /\ IF s["type"] = "websocket"
           THEN pc' = "ws_call" /\ UNCHANGED <<exc, events>>
           ELSE /\ pc' = "done"
                /\ exc' = <<"AssertionError">>
                /\ events' = Append(events, Raise("AssertionError"))
    /\ entry' = "WebSocketEndpoint"
    /\ UNCHANGED <<facadeVars, httpVars, received, message, data, close_code>>

\* __call__ with close_code starting at the default code.
WebSocketEndpoint_call_CodePreset ==
    /\ pc = "ws_call"
    /\ LET called == Ev("on_connect", NoData, None, ScopeKwargs(scope))
       IN  \/ /\ events' = Append(events, called)
              /\ close_code' = Some(1000)
              /\ pc' = "ws_receive"
              /\ exc' = exc
           \/ /\ events' = events \o <<called, Raise("UserError")>>
              /\ close_code' = close_code
              /\ pc' = "done"
              /\ exc' = <<"UserError">>
    /\ UNCHANGED <<facadeVars, entry, scope, scope0, httpVars, encoding, received, message, data>>

\* __call__ with on_connect awaited inside the try statement.
WebSocketEndpoint_call_InsideTry ==
    /\ pc = "ws_call"
    /\ LET called == Ev("on_connect", NoData, None, ScopeKwargs(scope))
       IN  \/ /\ events' = Append(events, called)
              /\ pc' = "ws_receive"
              /\ exc' = exc
           \/ /\ events' = events \o <<called, Raise("UserError")>>
              /\ pc' = "ws_finally"
              /\ exc' = <<"UserError">>
    /\ close_code' = None
    /\ UNCHANGED <<facadeVars, entry, scope, scope0, httpVars, encoding, received, message, data>>

\* WebSocketEndpoint.__call__(receive, send), up to the try statement.
WebSocketEndpoint_call ==
    /\ pc = "ws_call"
    /\ LET called == Ev("on_connect", NoData, None, ScopeKwargs(scope))
       IN  \/ /\ events' = Append(events, called)
              /\ close_code' = None
              /\ pc' = "ws_receive"
              /\ exc' = exc
           \/ /\ events' = events \o <<called, Raise("UserError")>>
              /\ close_code' = close_code
              /\ pc' = "done"
              /\ exc' = <<"UserError">>
    /\ UNCHANGED <<facadeVars, entry, scope, scope0, httpVars, encoding, received, message, data>>

\* One turn of the loop: message = await websocket.receive(), and the branch
\* on its type.
WebSocketEndpoint_receive ==
    /\ pc = "ws_receive"
    /\ LET called == Ev("receive", NoData, None, EmptyKwargs)
       IN  \/ /\ Len(received) < MaxInbound
              /\ \E m \in Messages :
                  /\ message' = m
                  /\ received' = Append(received, m)
                  /\ events' = Append(events, called)
                  /\ exc' = exc
                  /\ CASE m["type"] = Receive ->
                            pc' = "ws_decode" /\ close_code' = close_code
                       [] m["type"] = Disconnect ->
                            /\ close_code' = CloseCode(m)
                            /\ pc' = Unwind
                       [] OTHER ->
                            pc' = "ws_receive" /\ close_code' = close_code
           \/ /\ events' = events \o <<called, Raise("ReceiveError")>>
              /\ exc' = <<"ReceiveError">>
              /\ pc' = Unwind
              /\ UNCHANGED <<message, received, close_code>>
    /\ UNCHANGED <<facadeVars, entry, scope, scope0, httpVars, encoding, data>>

\* data = await self.decode(websocket, message)
WebSocketEndpoint_decode ==
    /\ pc = "ws_decode"
    /\ LET r == Decode(encoding, message)
           closing == IF r.closed = None THEN <<>> ELSE <<Ev("close", NoData, r.closed, EmptyKwargs)>>
       IN  IF r.raised = None
           THEN /\ data' = r.value
                /\ pc' = "ws_on_receive"
                /\ UNCHANGED <<events, exc>>
           ELSE /\ events' = events \o closing \o <<Raise(CHOOSE n \in r.raised : TRUE)>>
                /\ exc' = <<CHOOSE n \in r.raised : TRUE>>
                /\ pc' = Unwind
                /\ data' = data
    /\ UNCHANGED <<facadeVars, entry, scope, scope0, httpVars, encoding, received, message,
                   close_code>>

\* await self.on_receive(websocket, data)
WebSocketEndpoint_on_receive ==
    /\ pc = "ws_on_receive"
    /\ LET called == Ev("on_receive", data, None, EmptyKwargs)
       IN  \/ /\ events' = Append(events, called)
              /\ pc' = "ws_receive"
              /\ exc' = exc
           \/ /\ events' = events \o <<called, Raise("UserError")>>
              /\ pc' = Unwind
              /\ exc' = <<"UserError">>
    /\ UNCHANGED <<facadeVars, entry, scope, scope0, httpVars, wsVars>>

\* finally: await self.on_disconnect(websocket, close_code)
WebSocketEndpoint_finally ==
    /\ pc = "ws_finally"
    /\ LET called == Ev("on_disconnect", NoData, close_code, EmptyKwargs)
       IN  \/ /\ events' = Append(events, called)
              /\ exc' = exc
           \/ /\ events' = events \o <<called, Raise("UserError")>>
              /\ exc' = <<"UserError">> \o exc
    /\ pc' = "done"
    /\ UNCHANGED <<facadeVars, entry, scope, scope0, httpVars, wsVars>>

Next ==
    \/ add_middleware
    \/ add_route
    \/ route
    \/ add_websocket_route
    \/ websocket_route
    \/ mount
    \/ Starlette_call
    \/ HTTPEndpoint_init
    \/ HTTPEndpoint_call
    \/ HTTPEndpoint_dispatch
    \/ HTTPEndpoint_method_not_allowed
    \/ SendResponse
    \/ request_response_app
    \/ request_response_awaitable
    \/ websocket_session_app
    \/ websocket_session_awaitable
    \/ WebSocketEndpoint_init
    \/ WebSocketEndpoint_call
    \/ WebSocketEndpoint_receive
    \/ WebSocketEndpoint_decode
    \/ WebSocketEndpoint_on_receive
    \/ WebSocketEndpoint_finally

Spec == Init /\ [][Next]_vars

\* ------------------------------------------------------------ properties
Last(s) == s[Len(s)]
Count(op) == Len(SelectSeq(events, LAMBDA e : e.op = op))
Positions(op) == {i \in 1..Len(events) : events[i].op = op}
Supported == {None, Some("text"), Some("bytes"), Some("json")}

\* on_connect was called and returned: the loop of WebSocketEndpoint.__call__
\* was entered.
LoopEntered ==
    \E i \in Positions("on_connect") : i = Len(events) \/ events[i + 1].op # "raise"

\* C1: once the receive loop has been entered, on_disconnect is never called
\* twice, and when the connection handler has finished it has been called
\* exactly once, whichever way the loop was left (a disconnect message, a fault
\* raised by decode, by on_receive or by websocket.receive()).
C1_DisconnectExactlyOnce ==
    entry = "WebSocketEndpoint" =>
        /\ Count("on_disconnect") <= 1
        /\ (Count("on_disconnect") = 1 => LoopEntered)
        /\ (pc = "done" /\ LoopEntered => Count("on_disconnect") = 1)

\* C1 witness: sessions left by a fault of on_receive have finished.
C1_Witness ==
    /\ entry = "WebSocketEndpoint"
    /\ pc = "done"
    /\ \E i \in Positions("on_receive") : events[i + 1] = Raise("UserError")
    /\ Count("on_disconnect") = 1

\* The calls a session makes for the messages ms when every one of them is
\* decoded and handed to on_receive.
RECURSIVE ReceiveCalls(_, _)
ReceiveCalls(enc, ms) ==
    IF ms = <<>> THEN <<>>
    ELSE <<Ev("receive", NoData, None, EmptyKwargs),
           Ev("on_receive", Decode(enc, Head(ms)).value, None, EmptyKwargs)>>
             \o ReceiveCalls(enc, Tail(ms))

\* The messages pulled are n decodable receive messages, then one disconnect.
NormalSession ==
    /\ received # <<>>
    /\ Last(received)["type"] = Disconnect
    /\ \A i \in 1..(Len(received) - 1) :
        /\ received[i]["type"] = Receive
        /\ Decode(encoding, received[i]).raised = None

\* C2: for n decodable receive messages followed by a disconnect message, the
\* finished session called on_receive once per receive message, in arrival
\* order, with the decoded payload, and then on_disconnect once, with the
\* code of the disconnect message, or 1000 when it carries none.  (All of
\* these messages are pulled only when on_connect and on_receive return.)
C2_ReceiveThenDisconnect ==
    entry = "WebSocketEndpoint" /\ pc = "done" /\ NormalSession =>
        LET n == Len(received) - 1
            d == Last(received)
            code == IF "code" \in DOMAIN d THEN d["code"] ELSE 1000
            calls_ == <<Ev("on_connect", NoData, None, ScopeKwargs(scope))>>
                        \o ReceiveCalls(encoding, SubSeq(received, 1, n))
                        \o <<Ev("receive", NoData, None, EmptyKwargs),
                             Ev("on_disconnect", NoData, Some(code), EmptyKwargs)>>
        IN  /\ Count("on_receive") = n
            /\ Count("on_disconnect") = 1
            /\ SubSeq(events, 1, Len(calls_)) = calls_
            /\ Len(events) <= Len(calls_) + 1

\* C2 witness: [receive(A), receive(B), disconnect(1001)] has been handled
\* under "text".
C2_Witness ==
    /\ entry = "WebSocketEndpoint"
    /\ pc = "done"
    /\ encoding = Some("text")
    /\ received = <<[type |-> Receive, text |-> Str("A")],
                    [type |-> Receive, text |-> Str("B")],
                    [type |-> Disconnect, code |-> 1001]>>

\* The payload kind of the receive message m does not match the encoding.
Mismatch(enc, m) ==
    /\ m["type"] = Receive
    /\ \/ enc = Some("text") /\ "text" \notin DOMAIN m
       \/ enc \in {Some("bytes"), Some("json")} /\ "bytes" \notin DOMAIN m

\* C3: when the payload kind of a receive message does not match the
\* encoding, the session is closed with 1003 and the decode fault is raised;
\* on_receive is called neither for that message nor later; the handler
\* finishes only after on_disconnect has been called, and the decode fault is
\* then the one propagating (or the context of a fault of on_disconnect).
C3_DecodeMismatch ==
    /\ entry = "WebSocketEndpoint"
    /\ received # <<>>
    /\ Mismatch(encoding, Last(received))
    /\ pc \in {"ws_finally", "done"}
    => /\ Cardinality(Positions("close")) = 1
       /\ LET k == CHOOSE i \in Positions("close") : TRUE
          IN  /\ events[k].code = Some(1003)
              /\ events[k - 1].op = "receive"
              /\ events[k + 1] = Raise("RuntimeError")
              /\ \A i \in Positions("on_receive") : i < k
              /\ Count("on_receive") =
                     Cardinality({i \in 1..(Len(received) - 1) : received[i]["type"] = Receive})
              /\ pc = "ws_finally" => Len(events) = k + 1 /\ exc = <<"RuntimeError">>
              /\ pc = "done" =>
                    /\ events[k + 2] = Ev("on_disconnect", NoData, close_code, EmptyKwargs)
                    /\ exc # <<>>
                    /\ Last(exc) = "RuntimeError"
                    /\ (Last(events).op # "raise" => exc = <<"RuntimeError">>)

\* C3 witness: a bytes-only message under "text" has ended a session.
C3_Witness ==
    /\ entry = "WebSocketEndpoint"
    /\ pc = "done"
    /\ encoding = Some("text")
    /\ received # <<>>
    /\ Last(received) = [type |-> Receive, bytes |-> Bytes("{\"a\":1}")]
    /\ exc = <<"RuntimeError">>

\* C4 as stated: an endpoint whose encoding is not None, "text", "bytes" or
\* "json" faults when it is constructed, before on_connect is called and
\* before any message is pulled.
C4_FaultsAtConstruction ==
    entry = "WebSocketEndpoint" /\ encoding \notin Supported =>
        /\ pc = "done"
        /\ exc = <<"AssertionError">>
        /\ Count("on_connect") = 0
        /\ Count("receive") = 0

\* C4 amended: with such an encoding and a websocket scope the construction
\* does not fault and on_connect is called; the assertion fails in decode, for
\* the first receive message pulled, without closing the session; on_receive
\* is never called, and the loop is left for on_disconnect.
C4_FaultsAtFirstDecode ==
    entry = "WebSocketEndpoint" /\ encoding \notin Supported /\ scope["type"] = "websocket" =>
        /\ events = <<>> => pc = "ws_call" /\ exc = <<>>
        /\ Count("on_receive") = 0
        /\ Count("close") = 0
        /\ \A i \in Positions("raise") :
              events[i] = Raise("AssertionError") =>
                  /\ Count("on_connect") = 1
                  /\ events[i - 1].op = "receive"
                  /\ Last(received)["type"] = Receive
                  /\ \A j \in 1..(Len(received) - 1) : received[j]["type"] # Receive
        /\ received # <<>> /\ Last(received)["type"] = Receive /\ pc \in {"ws_finally", "done"} =>
              /\ Last(exc) = "AssertionError"
              /\ pc = "done" => Ev("on_disconnect", NoData, None, EmptyKwargs) \in
                                    {events[i] : i \in 1..Len(events)}

\* C4 witness: a session with an unsupported encoding has failed in decode.
C4_Witness ==
    /\ entry = "WebSocketEndpoint"
    /\ encoding \notin Supported
    /\ pc = "done"
    /\ exc = <<"AssertionError">>
    /\ Count("on_connect") = 1
    /\ Count("on_disconnect") = 1

\* dispatch has resolved a handler and called it.
Dispatched == entry = "HTTPEndpoint" /\ handler_name # ""

\* C5: dispatch calls the handler named m.lower() (get for HEAD) with the
\* request and the path parameters if the endpoint defines a handler of that
\* name, and method_not_allowed in every other case.
C5_DispatchByName ==
    Dispatched =>
        LET name == IF scope["method"] = "HEAD" THEN "get" ELSE Lower(scope["method"])
        IN  IF name \in handlers
            THEN events[1] = Ev("handler", Val("name", name), None, ScopeKwargs(scope))
            ELSE \/ pc = "method_not_allowed" /\ events = <<>>
                 \/ /\ events # <<>>
                    /\ events[1] = Ev("method_not_allowed", NoData, None, ScopeKwargs(scope))

RECURSIVE Reverse(_)
Reverse(s) == IF s = <<>> THEN <<>> ELSE Append(Reverse(Tail(s)), Head(s))

\* C6: after add_middleware(M1), ..., add_middleware(Mn) each call has wrapped
\* the handler that was effective before it: the exception wrapper's inner
\* handler is Mn(...(M1(router))).
C6_MiddlewareChain ==
    exception_middleware_app = Reverse(middleware) \o Router

\* The registrations made through add_route or the route decorator without
\* a method set.
DefaultedRoutes == {i \in 1..Len(calls) : calls[i].op = "add_route" /\ calls[i].methods = None}

\* C7 as stated: an HTTP route registered without a method set is restricted
\* to {GET}, for a plain routine and for a class-based endpoint alike.
C7_DefaultGet ==
    \A i \in DefaultedRoutes : routes[i].methods = Some(<<"GET">>)

\* C7 amended: an HTTP route registered without a method set is restricted
\* to {GET} when the route is a plain routine; for a class-based endpoint the
\* entry's method set stays unset (None).
C7_DefaultGetForRoutines ==
    \A i \in DefaultedRoutes :
        /\ routes[i].cls = "Path"
        /\ routes[i].protocol = Some("http")
        /\ routes[i].methods = IF calls[i].route = "Endpoint" THEN None ELSE Some(<<"GET">>)

\* C7 witness: a plain routine was registered without methods.
C7_Witness ==
    \E i \in DefaultedRoutes : calls[i].route = "func" /\ routes[i].methods = Some(<<"GET">>)

\* C8: method_not_allowed raises HTTPException(405) and gives no response
\* exactly when "app" is a key of the scope; otherwise it raises nothing and
\* returns the plain-text 405 response, which __call__ then sends.
C8_MethodNotAllowed ==
    entry = "HTTPEndpoint" /\ Count("method_not_allowed") > 0 =>
        LET sent == Ev("response", Val("body", "Method Not Allowed"), Some(405), EmptyKwargs)
        IN  /\ Count("method_not_allowed") = 1
            /\ IF "app" \in DOMAIN scope
               THEN /\ exc = <<"HTTPException(405)">>
                    /\ Last(events) = Raise("HTTPException(405)")
                    /\ response = None
                    /\ Count("response") = 0
                    /\ pc = "done"
               ELSE /\ exc = <<>>
                    /\ Count("raise") = 0
                    /\ response = Some(PlainTextResponse405)
                    /\ \/ pc = "respond" /\ Count("response") = 0
                       \/ pc = "done" /\ Last(events) = sent /\ Count("response") = 1

\* C8 witness: a standalone endpoint has sent the 405 response.
C8_Witness ==
    /\ entry = "HTTPEndpoint"
    /\ pc = "done"
    /\ "app" \notin DOMAIN scope
    /\ Count("method_not_allowed") = 1
    /\ Count("response") = 1

\* C9: for a lifespan scope Starlette.__call__ calls only the lifespan handler
\* and leaves the scope as it was; for any other scope it sets scope["app"] to
\* the facade and calls only the exception middleware, which sees that key.
C9_FacadeBranch ==
    entry = "Starlette" =>
        IF scope0["type"] = "lifespan"
        THEN /\ scope = scope0
             /\ events = <<Ev("lifespan_handler", ScopeApp(scope0), None, ScopeKwargs(scope0))>>
        ELSE /\ scope = ("app" :> Self) @@ scope0
             /\ events = <<Ev("exception_middleware", Val("app", Self), None, ScopeKwargs(scope0))>>

\* C9 witness: an http scope without "app" went to the exception middleware.
C9_Witness ==
    /\ entry = "Starlette"
    /\ scope0["type"] = "http"
    /\ "app" \notin DOMAIN scope0
    /\ events # <<>>

\* C10 as stated: the scope after handling a connection is the scope the
\* handler was given.
C10_ScopeReadOnly ==
    pc = "done" => scope = scope0

\* C10 amended: the only change made to a scope is the "app" key that
\* Starlette.__call__ sets on a scope that is not a lifespan scope; every other
\* key keeps its value, and the adapters and the endpoints change nothing.
C10_ScopeStampedOnlyByFacade ==
    pc # "idle" =>
        /\ entry # "Starlette" => scope = scope0
        /\ entry = "Starlette" =>
              /\ DOMAIN scope \subseteq DOMAIN scope0 \cup {"app"}
              /\ \A k \in DOMAIN scope0 \ {"app"} : k \in DOMAIN scope /\ scope[k] = scope0[k]
              /\ "app" \in DOMAIN scope => scope["app"] = Self \/ scope = scope0
              /\ scope # scope0 => scope0["type"] # "lifespan"
              /\ scope0["type"] # "lifespan" => "app" \in DOMAIN scope /\ scope["app"] = Self

\* C10 witness: the facade has handled a connection and stamped its scope.
C10_Witness ==
    /\ pc = "done"
    /\ entry = "Starlette"
    /\ scope # scope0
\* C11: the handler made by request_response calls func once with the request
\* and the scope's path parameters, awaiting it when it is a coroutine
\* function, and then calls the response it returned once; when func raises,
\* that fault is the one leaving the handler and no response is called.
C11_AdapterCallsThenResponds ==
    entry = "request_response" =>
        LET called == Ev("func", Val("call", IF is_coroutine THEN "await" ELSE "plain"),
                         None, ScopeKwargs(scope0))
            sent == Ev("response", Val("body", UserResponse.body),
                       Some(UserResponse.status_code), EmptyKwargs)
        IN  /\ pc = "rr_awaitable" => events = <<>> /\ exc = <<>>
            /\ pc = "respond" => events = <<called>> /\ exc = <<>> /\ response = Some(UserResponse)
            /\ pc = "done" =>
                  \/ events = <<called, sent>> /\ exc = <<>>
                  \/ events = <<called, Raise("UserError")>> /\ exc = <<"UserError">>
            /\ pc \in {"rr_awaitable", "respond", "done"}

\* C11 witness: func has raised and the handler has finished.
C11_Witness ==
    /\ entry = "request_response"
    /\ pc = "done"
    /\ exc = <<"UserError">>
    /\ Count("response") = 0

\* What a caller observes of a call: the routine f called with the request and
\* the path parameters, however the handler reached it.
Observed(e) == IF e.op \in {"func", "handler"} THEN Ev("f", NoData, None, e.kwargs) ELSE e
ObservedEvents == [i \in 1..Len(events) |-> Observed(events[i])]

\* The two runs the routine f allows for the scope s: f returns its response
\* and the response is called, or f raises.
RoutineRuns(s) ==
    LET f == Ev("f", NoData, None, ScopeKwargs(s))
    IN  {<<f, Ev("response", Val("body", "user"), Some(200), EmptyKwargs)>>,
         <<f, Raise("UserError")>>}

\* A GET request handled by request_response(f), or by an HTTPEndpoint whose
\* get handler is f.
GetByAdapter == entry = "request_response" /\ scope0["type"] = "http" /\ scope0["method"] = "GET"
GetByEndpoint ==
    entry = "HTTPEndpoint" /\ scope0["type"] = "http" /\ scope0["method"] = "GET" /\ "get" \in handlers

\* C12: for a GET request the adapter-made handler and the class-based
\* endpoint whose get handler is the same routine behave alike: phase one
\* (given the scope) calls nothing, and phase two makes the same calls, f with
\* the request and the path parameters and then the response.
C12_AdapterLikeEndpoint ==
    GetByAdapter \/ GetByEndpoint =>
        /\ pc \in {"rr_awaitable", "http_call"} => events = <<>> /\ exc = <<>>
        /\ pc = "done" => ObservedEvents \in RoutineRuns(scope0)
        /\ pc # "done" => \E run \in RoutineRuns(scope0) :
                              ObservedEvents = SubSeq(run, 1, Len(events))

\* C12 witness: the endpoint has answered a GET request through its get
\* handler.
C12_Witness ==
    /\ GetByEndpoint
    /\ pc = "done"
    /\ Count("handler") = 1
    /\ Count("response") = 1

\* The scope type each endpoint class asserts.
Misrouted ==
    \/ entry = "HTTPEndpoint" /\ scope0["type"] # "http"
    \/ entry = "WebSocketEndpoint" /\ scope0["type"] # "websocket"

\* C13: an endpoint constructed from a scope of the wrong type faults in
\* its constructor: nothing is called, no message is pulled and nothing is
\* sent.
C13_WrongScopeFaultsAtConstruction ==
    Misrouted =>
        /\ pc = "done"
        /\ exc = <<"AssertionError">>
        /\ events = <<Raise("AssertionError")>>
        /\ received = <<>>
        /\ response = None
        /\ handler_name = ""

\* C13 witness: a WebSocketEndpoint was constructed from an http scope.
C13_Witness ==
    /\ entry = "WebSocketEndpoint"
    /\ scope0["type"] = "http"
    /\ exc = <<"AssertionError">>
\* C14: when the loop is left by a fault before a disconnect message was
\* seen, on_disconnect is called with None; so it is after a mismatch that
\* closed the session with 1003.
C14_FaultExitPassesNone ==
    /\ entry = "WebSocketEndpoint"
    /\ \A k \in 1..Len(received) : received[k]["type"] # Disconnect
    => /\ close_code = None
       /\ \A i \in Positions("on_disconnect") :
             /\ events[i] = Ev("on_disconnect", NoData, None, EmptyKwargs)
             /\ events[i - 1].op = "raise"
       /\ pc = "done" /\ LoopEntered => Count("on_disconnect") = 1

\* C14 witness: a session closed with 1003 has called on_disconnect(None).
C14_Witness ==
    /\ entry = "WebSocketEndpoint"
    /\ pc = "done"
    /\ \E i \in Positions("close") :
          /\ events[i].code = Some(1003)
          /\ events[i + 2] = Ev("on_disconnect", NoData, None, EmptyKwargs)

\* The number of the message that the call of websocket.receive() at
\* position i of events returned.
PullIndex(i) == Cardinality({j \in Positions("receive") : j <= i})

\* C15: one message is in processing at a time.  A message is pulled only
\* right after on_connect, after on_receive returned for the message before,
\* or after a message that needs no processing; on_receive is called only for
\* the receive message just pulled; a disconnect message is the last message
\* pulled, and after it neither receive nor on_receive is called.
C15_OneMessageAtATime ==
    entry = "WebSocketEndpoint" =>
        /\ \A i \in Positions("receive") :
              /\ i > 1
              /\ events[i - 1].op \in {"on_connect", "on_receive", "receive"}
              /\ events[i - 1].op = "receive" =>
                    received[PullIndex(i - 1)]["type"] \notin {Receive, Disconnect}
        /\ \A i \in Positions("on_receive") :
              /\ events[i - 1].op = "receive"
              /\ received[PullIndex(i - 1)]["type"] = Receive
        /\ \A k \in 1..Len(received) :
              received[k]["type"] = Disconnect =>
                  /\ k = Len(received)
                  /\ pc \in {"ws_finally", "done"}
                  /\ Count("receive") = k
                  /\ \A i \in 1..Len(events) :
                        PullIndex(i) = k => events[i].op \in {"receive", "on_disconnect", "raise"}
        /\ pc \in {"ws_decode", "ws_on_receive"} =>
              /\ Last(events).op = "receive"
              /\ message = Last(received)
              /\ message["type"] = Receive

\* C15 witness: the second message is in processing after the first was
\* handed to on_receive.
C15_Witness ==
    /\ entry = "WebSocketEndpoint"
    /\ pc = "ws_on_receive"
    /\ Len(received) = 2
    /\ Count("on_receive") = 1

\* on_connect raised.
ConnectFailed == Len(events) >= 2 /\ events[1].op = "on_connect" /\ events[2] = Raise("UserError")

\* C16: on_connect is called once, with the session and the scope's path
\* parameters, before any message is pulled; when it returns the loop is
\* entered; when it raises, the fault leaves the handler, no message is
\* pulled and on_disconnect is not called.
C16_ConnectFirst ==
    entry = "WebSocketEndpoint" /\ scope0["type"] = "websocket" =>
        /\ pc = "ws_call" => events = <<>> /\ received = <<>>
        /\ pc # "ws_call" =>
              /\ events[1] = Ev("on_connect", NoData, None, ScopeKwargs(scope0))
              /\ Count("on_connect") = 1
              /\ IF ConnectFailed
                 THEN /\ pc = "done"
                      /\ Len(events) = 2
                      /\ exc = <<"UserError">>
                      /\ received = <<>>
                 ELSE /\ Len(events) = 1 => pc = "ws_receive" /\ exc = <<>>
                      /\ Len(events) >= 2 => events[2].op = "receive"

\* C16 witness: on_connect was called with path parameters and raised.
C16_Witness ==
    /\ entry = "WebSocketEndpoint"
    /\ ConnectFailed
    /\ events[1].kwargs = PathParams

\* The payload of the receive message m is of the kind the encoding asks
\* for; under "json", UTF-8 JSON text in a binary payload.
Matches(enc, m) ==
    /\ m["type"] = Receive
    /\ \/ enc = None
       \/ enc = Some("text") /\ "text" \in DOMAIN m
       \/ enc = Some("bytes") /\ "bytes" \in DOMAIN m
       \/ enc = Some("json") /\ "bytes" \in DOMAIN m /\ m["bytes"] = Bytes("{\"a\":1}")

\* The value the encoding gives for such a message.
Expected(enc, m) ==
    CASE enc = Some("text") -> m["text"]
      [] enc = Some("bytes") -> m["bytes"]
      [] enc = Some("json") -> Json("{'a': 1}")
      [] enc = None -> IF "text" \in DOMAIN m THEN m["text"] ELSE m["bytes"]

\* C17: for a receive message whose payload matches the encoding, decode
\* returns the text payload under "text", the binary payload under "bytes",
\* the parsed JSON value under "json" and the payload as it came under None;
\* the session is not closed, and on_receive is called with that value.
C17_DecodeValues ==
    entry = "WebSocketEndpoint" =>
        /\ \A k \in 1..Len(received) :
              Matches(encoding, received[k]) /\ ~(k = Len(received) /\ pc = "ws_decode") =>
                  LET p == CHOOSE i \in Positions("receive") : PullIndex(i) = k /\ events[i].op = "receive"
                  IN  /\ \A j \in Positions("close") : j > p
                      /\ IF k = Len(received) /\ pc = "ws_on_receive"
                         THEN data = Expected(encoding, received[k]) /\ p = Len(events)
                         ELSE events[p + 1] = Ev("on_receive", Expected(encoding, received[k]),
                                                 None, EmptyKwargs)
        /\ \A i \in Positions("on_receive") :
              encoding \in Supported => Matches(encoding, received[PullIndex(i)])

\* C17 witness: b'{"a":1}' was handed to on_receive as the parsed value under
\* "json".
C17_Witness ==
    /\ entry = "WebSocketEndpoint"
    /\ encoding = Some("json")
    /\ \E i \in Positions("on_receive") : events[i].data = Json("{'a': 1}")
\* C18: dispatch ends after calling one handler, a method handler of the
\* subclass or method_not_allowed: it never calls itself again and never
\* tries to call the scope attribute.
C18_DispatchCallsOneHandler ==
    entry = "HTTPEndpoint" /\ scope0["type"] = "http" =>
        /\ depth <= 1
        /\ Count("dispatch") = 0
        /\ \A i \in Positions("raise") : events[i] \notin {Raise("TypeError"), Raise("RecursionError")}
        /\ pc \in {"respond", "done"} => Count("handler") + Count("method_not_allowed") = 1

\* The faults raised by decode in a session: the positions in events.
DecodeFaults ==
    {i \in Positions("raise") :
        /\ entry = "WebSocketEndpoint"
        /\ scope0["type"] = "websocket"
        /\ events[i].data.v \in {"RuntimeError", "UnicodeDecodeError", "JSONDecodeError",
                                 "AssertionError"}}

Closed1003 == Ev("close", NoData, Some(1003), EmptyKwargs)

\* C19 as stated: every fault decode raises comes after the session was
\* closed with 1003.
C19_EveryDecodeFaultCloses ==
    \A i \in DecodeFaults : events[i - 1] = Closed1003

\* C19 amended: decode closes the session with 1003 before the fault of a
\* payload-kind mismatch, and only then; the faults of a binary payload that
\* is not UTF-8 JSON under "json", and of an unsupported encoding, leave
\* decode while the session has not been closed.
C19_OnlyMismatchCloses ==
    /\ \A i \in DecodeFaults :
          /\ received # <<>>
          /\ IF Mismatch(encoding, Last(received))
             THEN /\ events[i] = Raise("RuntimeError")
                  /\ events[i - 1] = Closed1003
                  /\ events[i - 2].op = "receive"
             ELSE /\ events[i] # Raise("RuntimeError")
                  /\ events[i - 1].op = "receive"
                  /\ Count("close") = 0
                  /\ \/ encoding = Some("json") /\ "bytes" \in DOMAIN Last(received)
                     \/ encoding \notin Supported
    /\ \A i \in Positions("close") :
          /\ events[i] = Closed1003
          /\ i + 1 \in DecodeFaults
    /\ entry = "WebSocketEndpoint" /\ pc \in {"ws_finally", "done"} /\ received # <<>>
          /\ Last(received)["type"] = Receive /\ ~Matches(encoding, Last(received))
       => DecodeFaults # {}

\* C19 witness: b'{' under "json" has ended a session that was never closed.
C19_Witness ==
    /\ entry = "WebSocketEndpoint"
    /\ pc = "done"
    /\ encoding = Some("json")
    /\ exc = <<"JSONDecodeError">>
    /\ Count("close") = 0
    /\ Count("on_disconnect") = 1
====
